---- MODULE Spec2Model ----
(***************************************************************************)
(* Model of the kang command line tool (src/LlmCompressor/main.cpp):       *)
(* handle_compression, handle_decompression and main, over a small file    *)
(* system.  The compression engine (compressor.cuh: compress_safetensor,   *)
(* decompress_kang) is not part of the sources; it is modelled from the    *)
(* design document (sections 4.1 - 4.3) with a small framed run-length     *)
(* codec standing in for the pluggable lossless byte compressor.           *)
(*                                                                         *)
(* Bytes are numbers 0..255.  A 64-bit unsigned value (uint64_t, size_t)   *)
(* is kept as its 8 bytes in memory order (little endian), because values  *)
(* up to 2^64-1 occur in files and exceed 32-bit integers; the             *)
(* 64-bit arithmetic the code does on them (8 + header_len, <) is done     *)
(* bytewise with carry, so it wraps modulo 2^64 as the code's does.        *)
(***************************************************************************)
EXTENDS Integers, Sequences, FiniteSets, TLC

\* ---------------------------------------------------------------- bounds
\* Longest body (bytes after the 8-byte length prefix) of a generated input file.
MaxBody == 3
\* Most entries of the input directory of a batch run.
MaxDirFiles == 2
\* Most runs of the program in one session on the same file system.
MaxRuns == 2
\* Most chunks of a CompressionResult that is not the engine's.
MaxChunks == 2

\* ------------------------------------------------------- bytes and words
\* The bytes of a uint64_t holding n, as out_file.write(reinterpret_cast<const
\* char*>(&v), sizeof(v)) puts them in the file (little endian); n < 2^31 here.
U64(n) ==
    << n % 256, (n \div 256) % 256, (n \div 65536) % 256, (n \div 16777216) % 256,
       0, 0, 0, 0 >>

\* A word whose value fits 32-bit integers (below 2^31).
IsSmall(w) == w[4] < 128 /\ w[5] = 0 /\ w[6] = 0 /\ w[7] = 0 /\ w[8] = 0

\* The value of a small word.
ToNat(w) == w[1] + 256 * w[2] + 65536 * w[3] + 16777216 * w[4]

\* Carry into byte i when the small number n is added to word w.
RECURSIVE CarryIn(_, _, _)
CarryIn(w, n, i) ==
    IF i = 1 THEN 0
    ELSE (w[i-1] + U64(n)[i-1] + CarryIn(w, n, i-1)) \div 256

\* w + n in uint64_t arithmetic: modulo 2^64 (the carry out of byte 8 is lost).
AddU64(w, n) == [i \in 1..8 |-> (w[i] + U64(n)[i] + CarryIn(w, n, i)) % 256]

\* a < b as unsigned 64-bit values: decided at the most significant differing byte.
LessU64(a, b) ==
    \E i \in 1..8 : a[i] < b[i] /\ \A j \in (i+1)..8 : a[j] = b[j]

\* Concatenation of a sequence of byte sequences.
RECURSIVE Flatten(_)
Flatten(ss) == IF ss = <<>> THEN <<>> ELSE Head(ss) \o Flatten(Tail(ss))

\* s without its first n elements.
Drop(s, n) == SubSeq(s, n + 1, Len(s))

\* The first n elements of s.
Take(s, n) == SubSeq(s, 1, n)

Min(a, b) == IF a <= b THEN a ELSE b

\* --------------------------------------------- engine (compressor.cuh)
\* The engine's sources are not in the repository's files: what follows is the
\* design document's engine (sections 4.1 to 4.3) with a concrete codec.

\* Range of the compression level (usage text: "Compression level (1-19, default: 10)").
MinLevel == 1
MaxLevel == 19

\* First byte of a compressed frame.
FrameMagic == 181

\* Target chunk size of the chunk planner, in bytes.
ChunkSize == 2

\* Length of the run of s[i] that starts at i, cut at cap.
RECURSIVE RunLength(_, _, _)
RunLength(s, i, cap) ==
    IF cap > 1 /\ i < Len(s) /\ s[i+1] = s[i]
    THEN 1 + RunLength(s, i + 1, cap - 1)
    ELSE 1

\* The (count, byte) pairs of s from position i on.
RECURSIVE Runs(_, _, _)
Runs(s, i, cap) ==
    IF i > Len(s) THEN <<>>
    ELSE LET n == RunLength(s, i, cap)
         IN  <<n, s[i]>> \o Runs(s, i + n, cap)

\* The lossless byte compressor: a frame of the magic byte, the content length
\* and the run-length pairs; a higher level allows longer runs.
CodecCompress(s, level) == <<FrameMagic, Len(s)>> \o Runs(s, 1, level)

\* The bytes a sequence of (count, byte) pairs stands for.
RECURSIVE Expand(_)
Expand(r) ==
    IF Len(r) < 2 THEN <<>>
    ELSE [i \in 1..r[1] |-> r[2]] \o Expand(Drop(r, 2))

\* Whether c decodes to a complete, valid stream.
CodecValid(c) ==
    /\ Len(c) >= 2
    /\ c[1] = FrameMagic
    /\ Len(c) % 2 = 0
    /\ \A i \in 1..((Len(c) - 2) \div 2) : c[2*i + 1] >= 1
    /\ Len(Expand(Drop(c, 2))) = c[2]

CodecDecompress(c) == Expand(Drop(c, 2))

\* Chunk planner: ordered (offset, length) ranges covering [0, total).
RECURSIVE PlanChunks(_, _)
PlanChunks(offset, total) ==
    IF offset >= total THEN <<>>
    ELSE LET n == Min(ChunkSize, total - offset)
         IN  <<[offset |-> offset, length |-> n]>> \o PlanChunks(offset + n, total)

\* A CompressionResult nobody has filled in.
EmptyResult ==
    [compressed_header |-> <<>>, chunk_info |-> <<>>, compressed_tensors |-> <<>>]

\* compress_safetensor(json_header, tensor_data, result, level): ok is the bool
\* it returns, the other fields are the CompressionResult it fills in.
compress_safetensor(json_header, tensor_data, level) ==
    LET plan   == PlanChunks(0, Len(tensor_data))
        packed == [i \in 1..Len(plan) |->
                     CodecCompress(SubSeq(tensor_data, plan[i].offset + 1,
                                          plan[i].offset + plan[i].length), level)]
    IN  IF level \in MinLevel..MaxLevel
        THEN [ok |-> TRUE,
              compressed_header |-> CodecCompress(json_header, level),
              chunk_info |-> [i \in 1..Len(plan) |->
                                <<U64(plan[i].length), U64(Len(packed[i]))>>],
              compressed_tensors |-> Flatten(packed)]
        ELSE [ok |-> FALSE] @@ EmptyResult

\* Sum of the compressed sizes of the first k chunks (all small words).
RECURSIVE CompressedPrefix(_, _)
CompressedPrefix(chunk_info, k) ==
    IF k = 0 THEN 0
    ELSE CompressedPrefix(chunk_info, k - 1) + ToNat(chunk_info[k][2])

\* The compressed bytes of chunk i, at its prefix-sum offset in the payload.
ChunkBytes(compressed_tensors, chunk_info, i) ==
    SubSeq(compressed_tensors,
           CompressedPrefix(chunk_info, i - 1) + 1,
           CompressedPrefix(chunk_info, i))

\* decompress_kang(compressed_header, compressed_tensors, chunk_info, json_header,
\* tensor_data): ok is the bool it returns.  It fails on a header that does not
\* decode, on declared sizes that disagree with the payload length, and on a chunk
\* that does not decode to its declared original size.
decompress_kang(compressed_header, compressed_tensors, chunk_info) ==
    LET K == Len(chunk_info)
        sizesOk ==
            /\ \A i \in 1..K : IsSmall(chunk_info[i][1]) /\ IsSmall(chunk_info[i][2])
            /\ CompressedPrefix(chunk_info, K) = Len(compressed_tensors)
        chunksOk ==
            \A i \in 1..K :
                LET c == ChunkBytes(compressed_tensors, chunk_info, i)
                IN  CodecValid(c) /\ Len(CodecDecompress(c)) = ToNat(chunk_info[i][1])
    IN  IF CodecValid(compressed_header) /\ sizesOk /\ chunksOk
        THEN [ok |-> TRUE,
              json_header |-> CodecDecompress(compressed_header),
              tensor_data |-> Flatten([i \in 1..K |->
                  CodecDecompress(ChunkBytes(compressed_tensors, chunk_info, i))])]
        ELSE [ok |-> FALSE, json_header |-> <<>>, tensor_data |-> <<>>]

\* ------------------------------------------------------ paths and strings
\* A command-line string, as std::filesystem::path splits it: parent directory,
\* stem and extension ("D/a.kang" is dir "D", stem "a", ext ".kang").
Str(d, s, e) == [dir |-> d, stem |-> s, ext |-> e]
W(s) == Str("", s, "")

SRC  == Str("", "m", ".safetensors")
KANG == Str("", "m", ".kang")
BACK == Str("", "r", ".safetensors")
DIN  == W("D")
DOUT == W("O")

\* File names of the input directory's entries, in iteration order.
StemNames == <<"a", "b", "c", "d">>

\* entry.path().filename().replace_extension(e), under directory d.
OutFile(d, entry, e) == Str(d.stem, entry.stem, e)

\* const std::string KANG_SIGNATURE = "KANGCOMP" (ASCII).
KANG_SIGNATURE == <<75, 65, 78, 71, 67, 79, 77, 80>>

\* int compression_level = 10.
DefaultLevel == 10

\* std::stoi on the level strings of the model; a string outside the domain has
\* no digits and makes std::stoi throw std::invalid_argument.
StoiValue == ("1" :> 1) @@ ("10" :> 10) @@ ("19" :> 19) @@ ("0" :> 0)

\* ------------------------------------------------------------------ state
VARIABLES
    disk,               \* regular files: path -> bytes
    dirs,               \* existing directories
    listing,            \* entries of directory D, in iteration order
    runs,               \* runs of the program started so far
    pc,                 \* where the running process is
    command, input_path, output_path, compression_level,   \* main's locals
    batch,              \* main took the directory branch
    idx, count,         \* the directory iterator's position, main's count
    exitCode,           \* main's return value
    hin, hout,          \* the running handler's input_path, output_path
    status,             \* last message of the handler ("running" while it runs)
    file_buffer, json_header, tensor_data, comp_result,    \* handler locals
    pos, compressed_header, chunk_info, compressed_tensors,
    engine,             \* history: the handler call's engine call ("not_called", "ok", "failed")
    allocs,             \* history: buffers sized from a declared value
    before,             \* history: the output path when the handler was called
    handled,            \* history: handler calls per directory entry
    prov                \* history: the container handle_compression wrote last

mainVars == <<command, input_path, output_path, compression_level, batch>>
loopVars == <<idx, count>>
frame    == <<hin, hout, before>>
locals   == <<file_buffer, json_header, tensor_data, comp_result,
              pos, compressed_header, chunk_info, compressed_tensors>>
world    == <<disk, dirs, listing>>
vars     == <<disk, dirs, listing, runs, pc, command, input_path, output_path,
              compression_level, batch, idx, count, exitCode, hin, hout, status,
              file_buffer, json_header, tensor_data, comp_result, pos,
              compressed_header, chunk_info, compressed_tensors, engine,
              allocs, before, handled, prov>>

\* ------------------------------------------------------------ input files
SeqsUpTo(S, n) == UNION { [1..k -> S] : k \in 0..n }

\* Bodies of the generated input files: what follows the length prefix.
Bodies == SeqsUpTo({0, 1}, MaxBody)

AllOnes == [i \in 1..8 |-> 255]

\* Length prefixes that do not fit 32-bit integers: 2^64-1, 2^64-8 (both
\* make 8 + header_len wrap), 2^64-9 (the largest that does not), 2^63 and 2^32.
HugePrefixes ==
    { AllOnes,
      <<248, 255, 255, 255, 255, 255, 255, 255>>,
      <<247, 255, 255, 255, 255, 255, 255, 255>>,
      <<0, 0, 0, 0, 0, 0, 0, 128>>,
      <<0, 0, 0, 0, 1, 0, 0, 0>> }

\* Input files for handle_compression: every small prefix with every body (the
\* prefix may exceed the body), the huge prefixes, and files shorter than a prefix.
RawFiles ==
    { U64(n) \o b : n \in 0..(MaxBody + 1), b \in Bodies }
        \cup { w \o b : w \in HugePrefixes, b \in SeqsUpTo({0, 1}, 1) }
        \cup { <<>>, <<1, 0, 0, 0, 0, 0, 0>> }

\* The bytes of a container with the given fields, fields taken as they are.
Container(sig, H, header, K, table, payload) ==
    sig \o H \o header \o K \o Flatten(table) \o payload

PackedEmpty == CodecCompress(<<>>, DefaultLevel)
PackedOne   == CodecCompress(<<1>>, DefaultLevel)

\* Containers no run of the program wrote: damaged, malicious or foreign files.
CraftedContainers ==
    { <<75, 65, 78>>,
      KANG_SIGNATURE,
      Container(<<75, 65, 78, 71, 67, 79, 77, 81>>, U64(2), PackedEmpty, U64(0), <<>>, <<>>),
      KANG_SIGNATURE \o AllOnes,
      KANG_SIGNATURE \o <<255, 255, 255, 255, 255, 255, 255, 127>> \o PackedEmpty,
      KANG_SIGNATURE \o <<0, 0, 0, 0, 1, 0, 0, 0>> \o PackedEmpty,
      KANG_SIGNATURE \o U64(5) \o PackedEmpty,
      Container(KANG_SIGNATURE, U64(2), PackedEmpty, AllOnes, <<>>, <<>>),
      Container(KANG_SIGNATURE, U64(2), PackedEmpty, <<0, 0, 0, 0, 0, 1, 0, 0>>, <<>>, <<>>),
      Container(KANG_SIGNATURE, U64(2), PackedEmpty, U64(3),
                << U64(1) \o U64(4) >>, PackedOne),
      Container(KANG_SIGNATURE, U64(2), PackedEmpty, U64(1),
                << U64(1) \o U64(5) >>, PackedOne),
      Container(KANG_SIGNATURE, U64(2), PackedEmpty, U64(1),
                << U64(1) \o AllOnes >>, PackedOne),
      Container(KANG_SIGNATURE, U64(2), PackedEmpty, U64(1),
                << U64(1) \o U64(4) >>, PackedOne \o <<0>>),
      Container(KANG_SIGNATURE, U64(2), PackedEmpty, U64(1),
                << U64(2) \o U64(4) >>, PackedOne),
      Container(KANG_SIGNATURE, U64(2), <<0, 0>>, U64(0), <<>>, <<>>),
      Container(KANG_SIGNATURE, U64(2), PackedEmpty, U64(1),
                << U64(1) \o U64(4) >>, PackedOne) }

\* What an entry of the input directory can be.
EntryKinds ==
    { [ext |-> ".safetensors", regular |-> TRUE,  data |-> U64(1) \o <<1, 0>>],
      [ext |-> ".safetensors", regular |-> TRUE,  data |-> <<1, 0, 0>>],
      [ext |-> ".safetensors", regular |-> TRUE,  data |-> AllOnes],
      [ext |-> ".safetensors", regular |-> FALSE, data |-> <<>>],
      [ext |-> ".kang",        regular |-> TRUE,
       data |-> Container(KANG_SIGNATURE, U64(2), PackedEmpty, U64(1),
                          << U64(1) \o U64(4) >>, PackedOne)],
      [ext |-> ".kang",        regular |-> TRUE,  data |-> <<75, 65, 78>>],
      [ext |-> ".kang",        regular |-> TRUE,  data |-> KANG_SIGNATURE \o AllOnes] }

\* Content of an output file that exists before the program runs.
OldBytes == <<7>>

\* Command lines (argv[1..]); every string is kept as the path it parses to.
ArgVectors ==
    { << W("compress") >>,
      << W("compress"), SRC >>,
      << W("compress"), SRC, KANG >>,
      << W("compress"), W("-l"), W("19"), SRC >>,
      << W("compress"), W("-l"), W("1"), SRC, KANG >>,
      << W("compress"), W("--level"), W("10"), SRC, KANG >>,
      << W("compress"), W("-l"), W("0"), SRC, KANG >>,
      << W("compress"), W("-l"), W("x"), SRC, KANG >>,
      << W("decompress"), KANG, BACK >>,
      << W("frob"), SRC, KANG >>,
      << W("compress"), DIN, DOUT >>,
      << W("decompress"), DIN, DOUT >>,
      << W("frob"), DIN, DOUT >> }

\* ------------------------------------------------------------------- Init
NoProv == [valid |-> FALSE, path |-> W(""), src |-> <<>>, result |-> EmptyResult,
           cut |-> FALSE]

\* Everything but the file system: no process has run yet.
InitProcess ==
    /\ runs = 0
    /\ pc = "idle"
    /\ command = W("")
    /\ input_path = W("")
    /\ output_path = W("")
    /\ compression_level = DefaultLevel
    /\ batch = FALSE
    /\ idx = 1
    /\ count = 0
    /\ exitCode = 0
    /\ hin = W("")
    /\ hout = W("")
    /\ status = "none"
    /\ file_buffer = <<>>
    /\ json_header = <<>>
    /\ tensor_data = <<>>
    /\ comp_result = EmptyResult
    /\ pos = 0
    /\ compressed_header = <<>>
    /\ chunk_info = <<>>
    /\ compressed_tensors = <<>>
    /\ engine = "not_called"
    /\ allocs = {}
    /\ before = [present |-> FALSE, data |-> <<>>]
    /\ handled = [i \in 1..Len(listing) |-> 0]
    /\ prov = NoProv

\* A file system with single files: an input file to compress or a container no
\* run wrote, and an output file of an earlier decompression.
InitSingle ==
    /\ disk \in { (SRC :> f) @@ (BACK :> OldBytes) : f \in RawFiles }
                   \cup { (KANG :> c) @@ (BACK :> OldBytes) : c \in CraftedContainers }
    /\ dirs = {}
    /\ listing = <<>>

\* A file system with the input directory D of up to MaxDirFiles entries.
InitBatch ==
    \E n \in 1..MaxDirFiles : \E kinds \in [1..n -> EntryKinds] :
        /\ listing = [i \in 1..n |->
               [path |-> Str("D", StemNames[i], kinds[i].ext),
                regular |-> kinds[i].regular]]
        /\ disk = [q \in { Str("D", StemNames[i], kinds[i].ext) :
                             i \in { j \in 1..n : kinds[j].regular } } |->
                     kinds[CHOOSE i \in 1..n : StemNames[i] = q.stem].data]
        /\ dirs = {DIN}

Init == (InitSingle \/ InitBatch) /\ InitProcess

\* ------------------------------------------------------- shared by actions
Present(p) == p \in DOMAIN disk

Snapshot(p) ==
    IF Present(p) THEN [present |-> TRUE, data |-> disk[p]]
    ELSE [present |-> FALSE, data |-> <<>>]

\* The file system after std::ofstream(p, binary), the writes and close().
WriteFile(p, bytes) == [q \in DOMAIN disk \cup {p} |-> IF q = p THEN bytes ELSE disk[q]]

ResetLocals ==
    /\ file_buffer' = <<>>
    /\ json_header' = <<>>
    /\ tensor_data' = <<>>
    /\ comp_result' = EmptyResult
    /\ pos' = 0
    /\ compressed_header' = <<>>
    /\ chunk_info' = <<>>
    /\ compressed_tensors' = <<>>

\* main's return value when the handler it called on a single file has returned.
ExitAfterHandler == 0

\* The handler returns (to the directory loop, or to main's return) with message st.
Return(st) ==
    /\ status' = st
    /\ ResetLocals
    /\ IF batch
       THEN pc' = "batch" /\ idx' = idx + 1 /\ count' = count + 1 /\ exitCode' = exitCode
       ELSE pc' = "exited" /\ exitCode' = ExitAfterHandler /\ UNCHANGED loopVars

\* An exception no handler catches (main catches fs::filesystem_error only), or a
\* crash: std::terminate, the process is gone.
Abort(st) ==
    /\ status' = st
    /\ ResetLocals
    /\ pc' = "aborted"
    /\ UNCHANGED <<exitCode, loopVars>>

\* Entering handle_compression / handle_decompression on (in, out).
Call(first, in, out) ==
    /\ pc' = first
    /\ hin' = in
    /\ hout' = out
    /\ before' = Snapshot(out)
    /\ status' = "running"
    /\ engine' = "not_called"

\* --------------------------------------------------------------- main
is_directory(p) == p \in dirs
is_regular_file(p) == Present(p)
exists(p) == p \in dirs \/ Present(p)

\* main up to the point where it returns, enters the directory loop or calls a
\* handler.  mk: whether fs::create_directories succeeds, if it is reached.
\* kind "exit" is a return (usage errors, invalid level, bad path, and the
\* fs::filesystem_error main catches); "batch" and "call" go on.
MainOutcome(args, mk) ==
    LET n       == Len(args)
        cmd     == args[1]
        opt     == /\ cmd = W("compress")
                   /\ n > 3
                   /\ (args[2] = W("-l") \/ args[2] = W("--level"))
        badOpt  == opt /\ (n < 5 \/ args[3].stem \notin DOMAIN StoiValue)
        level   == IF opt /\ ~badOpt THEN StoiValue[args[3].stem] ELSE DefaultLevel
        pai     == IF opt THEN 3 ELSE 1
        early   == [kind |-> "exit", code |-> 1, command |-> W(""),
                    input_path |-> W(""), output_path |-> W(""),
                    level |-> DefaultLevel, mkdir |-> FALSE]
    IN  IF n < 2 THEN early
        ELSE IF badOpt THEN [early EXCEPT !.command = cmd]
        ELSE IF n < pai + 2 THEN [early EXCEPT !.command = cmd, !.level = level]
        ELSE
          LET inp  == args[pai + 1]
              outp == args[pai + 2]
              base == [kind |-> "exit", code |-> 1, command |-> cmd,
                       input_path |-> inp, output_path |-> outp,
                       level |-> level, mkdir |-> FALSE]
              known == cmd = W("compress") \/ cmd = W("decompress")
          IN  IF is_directory(inp)
              THEN IF ~exists(outp) /\ ~mk THEN base
                   ELSE [base EXCEPT !.kind = IF known THEN "batch" ELSE "exit",
                                     !.mkdir = ~exists(outp)]
              ELSE IF is_regular_file(inp)
              THEN IF known THEN [base EXCEPT !.kind = "call"] ELSE base
              ELSE base

\* Whether the run reaches fs::create_directories: only then does its success matter.
NeedsMkdir(args) == Len(args) = 3 /\ is_directory(args[2]) /\ ~exists(args[3])

\* A run of the program: main(argc, argv) from its start to its first return,
\* loop entry or handler call.
MainWith(argvs) ==
    /\ pc \in {"idle", "exited", "aborted"}
    /\ runs < MaxRuns
    /\ \E args \in argvs, mk \in BOOLEAN :
         LET o == MainOutcome(args, mk)
         IN  /\ mk \/ NeedsMkdir(args)
             /\ prov.cut => args[1] = W("decompress")
             /\ runs' = runs + 1
             /\ command' = o.command
             /\ input_path' = o.input_path
             /\ output_path' = o.output_path
             /\ compression_level' = o.level
             /\ batch' = (o.kind = "batch")
             /\ dirs' = IF o.mkdir THEN dirs \cup {o.output_path} ELSE dirs
             /\ idx' = 1
             /\ count' = 0
             /\ handled' = [i \in 1..Len(listing) |-> 0]
             /\ allocs' = {}
             /\ IF o.kind = "call"
                THEN /\ Call(IF o.command = W("compress") THEN "c_read" ELSE "d_open",
                             o.input_path, o.output_path)
                     /\ exitCode' = 0
                ELSE /\ pc' = IF o.kind = "batch" THEN "batch" ELSE "exited"
                     /\ exitCode' = IF o.kind = "batch" THEN 0 ELSE o.code
                     /\ status' = "none"
                     /\ engine' = "not_called"
                     /\ UNCHANGED frame
             /\ UNCHANGED <<disk, listing, locals, prov>>

Main == MainWith(ArgVectors)

\* One turn of the directory loop: the next entry is handed to its handler or
\* skipped; past the last entry main prints "Batch processing finished" and returns 0.
BatchStep ==
    /\ pc = "batch"
    /\ IF idx > Len(listing)
       THEN /\ pc' = "exited"
            /\ exitCode' = 0
            /\ UNCHANGED <<loopVars, frame, status, engine, handled>>
       ELSE LET entry == listing[idx]
                comp  == command = W("compress")
                want  == IF comp THEN ".safetensors" ELSE ".kang"
                other == IF comp THEN ".kang" ELSE ".safetensors"
            IN  IF entry.regular /\ entry.path.ext = want
                THEN /\ Call(IF comp THEN "c_read" ELSE "d_open",
                             entry.path, OutFile(output_path, entry.path, other))
                     /\ handled' = [handled EXCEPT ![idx] = @ + 1]
                     /\ UNCHANGED <<loopVars, exitCode>>
                ELSE /\ idx' = idx + 1
                     /\ UNCHANGED <<pc, count, exitCode, frame, status,
                                    engine, handled>>
    /\ UNCHANGED <<world, runs, mainVars, locals, allocs, prov>>

\* ----------------------------------------------------- handle_compression
\* uint64_t header_len, memcpy'd from the first 8 bytes of the file.
HeaderLen(buf) == Take(buf, 8)

\* The check "file_buffer.size() < 8 + header_len", in uint64_t arithmetic.
HeaderSizeMismatch(buf) == LessU64(U64(Len(buf)), AddU64(HeaderLen(buf), 8))

\* Whether the ranges [8, 8 + header_len) and [8 + header_len, size) lie in the
\* buffer: 8 + header_len <= size as numbers, not modulo 2^64.
SplitInBounds(buf) ==
    IsSmall(HeaderLen(buf)) /\ 8 + ToNat(HeaderLen(buf)) <= Len(buf)

\* json_header(file_buffer.data() + 8, file_buffer.data() + 8 + header_len).
SplitJson(buf) == SubSeq(buf, 9, 8 + ToNat(HeaderLen(buf)))

\* tensor_data(file_buffer.begin() + 8 + header_len, file_buffer.end()).
SplitTensor(buf) == Drop(buf, 8 + ToNat(HeaderLen(buf)))

\* What building a std::string from a pointer range that ends before it starts
\* (undefined behaviour) does in a build: the library computes a length of nearly
\* 2^64 and throws std::length_error, or the copy runs off the buffer and the
\* process is killed.  Either way the process ends.
SplitUBOutcomes == {"length_error", "segfault"}

\* Mutant: each pair of the chunk table is written compressed size first.
WriteContainerPairsSwapped(r) ==
    KANG_SIGNATURE
        \o U64(Len(r.compressed_header))
        \o r.compressed_header
        \o U64(Len(r.chunk_info))
        \o Flatten([i \in 1..Len(r.chunk_info) |->
                      r.chunk_info[i][2] \o r.chunk_info[i][1]])
        \o r.compressed_tensors

\* Mutant: the return value of compress_safetensor is not tested.
CompressionFailedIgnored(r) == FALSE

\* The test of compress_safetensor's return value.
CompressionFailed(r) == ~r.ok

\* The bytes handle_compression writes for a CompressionResult.
WriteContainer(r) ==
    KANG_SIGNATURE
        \o U64(Len(r.compressed_header))
        \o r.compressed_header
        \o U64(Len(r.chunk_info))
        \o Flatten([i \in 1..Len(r.chunk_info) |->
                      r.chunk_info[i][1] \o r.chunk_info[i][2]])
        \o r.compressed_tensors

\* read_all and the size check: the whole file in file_buffer, or an error.
C_Read ==
    /\ pc = "c_read"
    /\ \E io \in BOOLEAN :
         IF ~io \/ ~Present(hin) THEN Return("cannot_open")
         ELSE IF Len(disk[hin]) < 8 THEN Return("too_small")
         ELSE /\ file_buffer' = disk[hin]
              /\ pc' = "c_split"
              /\ UNCHANGED <<status, exitCode, loopVars, json_header, tensor_data,
                             comp_result, pos, compressed_header, chunk_info,
                             compressed_tensors>>
    /\ UNCHANGED <<world, runs, mainVars, frame, engine, allocs, handled, prov>>

\* The header size check and the split into json_header and tensor_data.
C_Split ==
    /\ pc = "c_split"
    /\ IF HeaderSizeMismatch(file_buffer) THEN Return("header_size_mismatch")
       ELSE IF ~SplitInBounds(file_buffer)
       THEN \E o \in SplitUBOutcomes : Abort(o)
       ELSE /\ json_header' = SplitJson(file_buffer)
            /\ tensor_data' = SplitTensor(file_buffer)
            /\ pc' = "c_engine"
            /\ UNCHANGED <<status, exitCode, loopVars, file_buffer, comp_result, pos,
                           compressed_header, chunk_info, compressed_tensors>>
    /\ UNCHANGED <<world, runs, mainVars, frame, engine, allocs, handled, prov>>

\* The call of compress_safetensor.
C_Engine ==
    /\ pc = "c_engine"
    /\ LET r == compress_safetensor(json_header, tensor_data, compression_level)
       IN  /\ engine' = IF r.ok THEN "ok" ELSE "failed"
           /\ IF CompressionFailed(r) THEN Return("compression_failed")
              ELSE /\ comp_result' = [compressed_header |-> r.compressed_header,
                                      chunk_info |-> r.chunk_info,
                                      compressed_tensors |-> r.compressed_tensors]
                   /\ pc' = "c_write"
                   /\ UNCHANGED <<status, exitCode, loopVars, file_buffer, json_header,
                                  tensor_data, pos, compressed_header, chunk_info,
                                  compressed_tensors>>
    /\ UNCHANGED <<world, runs, mainVars, frame, allocs, handled, prov>>

\* Creating the output file and writing the container.
C_Write ==
    /\ pc = "c_write"
    /\ \E io \in BOOLEAN :
         IF ~io
         THEN /\ Return("cannot_create")
              /\ UNCHANGED <<disk, prov>>
         ELSE /\ disk' = WriteFile(hout, WriteContainer(comp_result))
              /\ prov' = [valid |-> TRUE, path |-> hout, src |-> file_buffer,
                          result |-> comp_result, cut |-> FALSE]
              /\ Return("success")
    /\ UNCHANGED <<dirs, listing, runs, mainVars, frame, engine, allocs, handled>>

\* --------------------------------------------------- handle_decompression
\* The signature read and test: the stream must supply 8 bytes equal to KANG_SIGNATURE.
SignatureBad(data) == Len(data) < 8 \/ Take(data, 8) # KANG_SIGNATURE

\* Mutant: the stream state after read_u64 is not tested.
ReadU64Unchecked(data, p) == FALSE

\* read_u64 at stream position p fails when fewer than 8 bytes are left.
ReadU64Fails(data, p) == p + 8 > Len(data)

\* The n bytes a buffer of zeros holds after in_file.read(buffer, n) at stream
\* position p: the bytes the stream supplies, the rest left as it was.
ReadBytes(data, p, n) == [i \in 1..n |-> IF p + i <= Len(data) THEN data[p + i] ELSE 0]

\* The uint64_t (initialised to 0) after read_u64 at stream position p.
ReadU64(data, p) == ReadBytes(data, p, 8)

\* std::vector<char>(n) throws std::length_error when n exceeds max_size() = 2^63 - 1.
VectorTooLong(w) == w[8] >= 128

\* chunk_info.reserve(n) throws std::length_error when n exceeds max_size() of a
\* vector of 16-byte pairs, 2^59 - 1.
ReserveTooLong(w) == w[8] >= 8

\* in_file.read of n declared bytes fails when fewer than n are left.
SizedReadFails(w, remain) == ~IsSmall(w) \/ (ToNat(w) > 0 /\ ToNat(w) > remain)

\* The chunk table loop fails when the stream ends before K pairs are read.
ChunkInfoReadFails(w, remain) ==
    ~IsSmall(w) \/ (ToNat(w) > 0 /\ ToNat(w) > remain \div 16)

\* The test of decompress_kang's return value.
DecompressionFailed(r) == ~r.ok

\* Mutant: the length prefix counts the tensor bytes too.
WriteSafetensorsTotalLength(json, tensors) ==
    U64(Len(json) + Len(tensors)) \o json \o tensors

\* The bytes handle_decompression writes: the length prefix, the header, the tensors.
WriteSafetensors(json, tensors) == U64(Len(json)) \o json \o tensors

\* Opening the input and reading the signature.
D_Open ==
    /\ pc = "d_open"
    /\ \E io \in BOOLEAN :
         IF ~io \/ ~Present(hin) THEN Return("cannot_open_input")
         ELSE IF SignatureBad(disk[hin]) THEN Return("invalid_signature")
         ELSE /\ pos' = 8
              /\ pc' = "d_header"
              /\ UNCHANGED <<status, exitCode, loopVars, file_buffer, json_header,
                             tensor_data, comp_result, compressed_header, chunk_info,
                             compressed_tensors>>
    /\ UNCHANGED <<world, runs, mainVars, frame, engine, allocs, handled, prov>>

\* Reading the compressed header: its declared size, the buffer of that size, the bytes.
D_Header ==
    /\ pc = "d_header"
    /\ LET data   == disk[hin]
           H      == ReadU64(data, pos)
           remain == Len(data) - pos - 8
       IN  IF ReadU64Fails(data, pos)
           THEN Return("error_header_size") /\ UNCHANGED allocs
           ELSE /\ allocs' = allocs \cup
                      {[what |-> "compressed_header", declared |-> H, remain |-> remain]}
                /\ IF VectorTooLong(H) THEN Abort("length_error")
                   ELSE IF ~IsSmall(H)
                   THEN \E mem \in BOOLEAN :
                          IF mem THEN Return("error_compressed_header")
                          ELSE Abort("bad_alloc")
                   ELSE IF SizedReadFails(H, remain)
                   THEN Return("error_compressed_header")
                   ELSE /\ compressed_header' = ReadBytes(data, pos + 8, ToNat(H))
                        /\ pos' = pos + 8 + ToNat(H)
                        /\ pc' = "d_chunks"
                        /\ UNCHANGED <<status, exitCode, loopVars, file_buffer,
                                       json_header, tensor_data, comp_result,
                                       chunk_info, compressed_tensors>>
    /\ UNCHANGED <<world, runs, mainVars, frame, engine, handled, prov>>

\* Reading the chunk table: the count, the reservation, the K pairs.
D_Chunks ==
    /\ pc = "d_chunks"
    /\ LET data   == disk[hin]
           K      == ReadU64(data, pos)
           remain == Len(data) - pos - 8
       IN  IF ReadU64Fails(data, pos)
           THEN Return("error_num_chunks") /\ UNCHANGED allocs
           ELSE /\ allocs' = allocs \cup
                      {[what |-> "chunk_info", declared |-> K, remain |-> remain]}
                /\ IF ReserveTooLong(K) THEN Abort("length_error")
                   ELSE IF ~IsSmall(K)
                   THEN \E mem \in BOOLEAN :
                          IF mem THEN Return("error_chunk_info")
                          ELSE Abort("bad_alloc")
                   ELSE IF ChunkInfoReadFails(K, remain)
                   THEN Return("error_chunk_info")
                   ELSE /\ chunk_info' = [i \in 1..ToNat(K) |->
                               << ReadU64(data, pos + 8 + 16 * (i - 1)),
                                  ReadU64(data, pos + 16 + 16 * (i - 1)) >>]
                        /\ pos' = pos + 8 + 16 * ToNat(K)
                        /\ pc' = "d_payload"
                        /\ UNCHANGED <<status, exitCode, loopVars, file_buffer,
                                       json_header, tensor_data, comp_result,
                                       compressed_header, compressed_tensors>>
    /\ UNCHANGED <<world, runs, mainVars, frame, engine, handled, prov>>

\* Reading everything that is left as the compressed payload (end < cur cannot
\* happen on a regular file: the stream position never passes the end).
D_Payload ==
    /\ pc = "d_payload"
    /\ compressed_tensors' = Drop(disk[hin], pos)
    /\ pos' = Len(disk[hin])
    /\ pc' = "d_engine"
    /\ UNCHANGED <<world, runs, mainVars, frame, engine, allocs, handled, prov,
                   status, exitCode, loopVars, file_buffer, json_header, tensor_data,
                   comp_result, compressed_header, chunk_info>>

\* The call of decompress_kang.
D_Engine ==
    /\ pc = "d_engine"
    /\ LET r == decompress_kang(compressed_header, compressed_tensors, chunk_info)
       IN  /\ engine' = IF r.ok THEN "ok" ELSE "failed"
           /\ IF DecompressionFailed(r) THEN Return("decompression_failed")
              ELSE /\ json_header' = r.json_header
                   /\ tensor_data' = r.tensor_data
                   /\ pc' = "d_write"
                   /\ UNCHANGED <<status, exitCode, loopVars, file_buffer, comp_result,
                                  pos, compressed_header, chunk_info, compressed_tensors>>
    /\ UNCHANGED <<world, runs, mainVars, frame, allocs, handled, prov>>

\* Creating the output file and writing the reconstructed file.
D_Write ==
    /\ pc = "d_write"
    /\ \E io \in BOOLEAN :
         IF ~io
         THEN /\ Return("cannot_create_output")
              /\ UNCHANGED <<disk, prov>>
         ELSE /\ disk' = WriteFile(hout, WriteSafetensors(json_header, tensor_data))
              /\ prov' = IF prov.path = hout THEN NoProv ELSE prov
              /\ Return("success")
    /\ UNCHANGED <<dirs, listing, runs, mainVars, frame, engine, allocs, handled>>

\* ------------------------------------------------------------ environment
\* After a single-file compression, something cuts trailing bytes off the container
\* it wrote (a truncated copy or download), before the program is run on it.
Truncate ==
    /\ pc = "exited"
    /\ runs < MaxRuns
    /\ ~batch /\ status = "success" /\ hout = prov.path
    /\ prov.valid /\ ~prov.cut
    /\ Present(prov.path)
    /\ \E n \in 0..(Len(disk[prov.path]) - 1) :
         disk' = [disk EXCEPT ![prov.path] = Take(@, n)]
    /\ prov' = [prov EXCEPT !.cut = TRUE]
    /\ UNCHANGED <<dirs, listing, runs, pc, mainVars, loopVars, exitCode, frame, status,
                   locals, engine, allocs, handled>>

Next ==
    \/ Main
    \/ BatchStep
    \/ C_Read
    \/ C_Split
    \/ C_Engine
    \/ C_Write
    \/ D_Open
    \/ D_Header
    \/ D_Chunks
    \/ D_Payload
    \/ D_Engine
    \/ D_Write
    \/ Truncate

Spec == Init /\ [][Next]_vars

\* -------------------------------------------- framing of arbitrary results
\* handle_compression's writer and handle_decompression's parser on every
\* CompressionResult, not only those the modelled engine returns: any header
\* bytes, any chunk table (sizes that disagree with the payload, sizes near 2^64),
\* any payload.
FramePairs ==
    { <<o, c>> : o \in {U64(1), AllOnes}, c \in {U64(0), U64(4), U64(300)} }

FrameResults ==
    [compressed_header : {<<>>, PackedEmpty, <<0, 9, 9>>},
     chunk_info : SeqsUpTo(FramePairs, MaxChunks),
     compressed_tensors : {<<>>, PackedOne, PackedOne \o PackedOne, <<9>>}]

\* handle_compression(SRC, KANG) has come to step 4 with some CompressionResult.
InitFrame ==
    /\ disk = (BACK :> OldBytes)
    /\ dirs = {}
    /\ listing = <<>>
    /\ runs = 1
    /\ pc = "c_write"
    /\ command = W("compress")
    /\ input_path = SRC
    /\ output_path = KANG
    /\ compression_level = DefaultLevel
    /\ batch = FALSE
    /\ idx = 1
    /\ count = 0
    /\ exitCode = 0
    /\ hin = SRC
    /\ hout = KANG
    /\ status = "running"
    /\ file_buffer = <<>>
    /\ json_header = <<>>
    /\ tensor_data = <<>>
    /\ comp_result \in FrameResults
    /\ pos = 0
    /\ compressed_header = <<>>
    /\ chunk_info = <<>>
    /\ compressed_tensors = <<>>
    /\ engine = "ok"
    /\ allocs = {}
    /\ before = [present |-> FALSE, data |-> <<>>]
    /\ handled = <<>>
    /\ prov = NoProv

\* The run that decompresses the container just written.
FrameMain == MainWith({ << W("decompress"), KANG, BACK >> })

NextFrame ==
    \/ C_Write
    \/ FrameMain
    \/ D_Open
    \/ D_Header
    \/ D_Chunks
    \/ D_Payload
    \/ D_Engine
    \/ D_Write

SpecFrame == InitFrame /\ [][NextFrame]_vars

\* ================================================================ claims
Compressing   == command = W("compress")
Decompressing == command = W("decompress")

\* A handler has been called in this run and is running or over.
HandlerCalled == status # "none"

\* The last handler call is over (it returned, or the process died in it).
HandlerOver == status \notin {"none", "running"}

\* The running or last handler call reads the container the last compression wrote.
OnWrittenContainer == Decompressing /\ HandlerCalled /\ prov.valid /\ hin = prov.path

\* Messages of handle_decompression that blame the environment, not the container.
IoFailures == {"cannot_open_input", "cannot_create_output"}

\* C1: round trip at file level.  Whenever handle_decompression has run on the
\* container handle_compression wrote from an input file (nothing touched it in
\* between), it ends with "success" unless a file could not be opened or created,
\* and then the output file is byte for byte the input file.
C1_RoundTrip ==
    (OnWrittenContainer /\ ~prov.cut /\ HandlerOver) =>
        /\ status \in IoFailures \cup {"success"}
        /\ status = "success" => (Present(hout) /\ disk[hout] = prov.src)

\* A round trip of a file with one byte of metadata and MaxBody - 1 tensor bytes.
C1_Witness ==
    /\ OnWrittenContainer /\ ~prov.cut /\ status = "success"
    /\ Len(prov.src) = 8 + MaxBody
    /\ HeaderLen(prov.src) = U64(1)
    /\ disk[hout] = prov.src

\* C5: no output before the result is assembled.  From the call of a handler on,
\* its output path differs from what it was at the call only if the engine call
\* has returned success; where the handler ends with an error or the process
\* dies, the output path is as it was.
C5_NoEarlyOutput ==
    HandlerCalled =>
        /\ Snapshot(hout) # before => (engine = "ok" /\ status = "success")
        /\ status # "success" => Snapshot(hout) = before

\* An engine failure left an existing output file as it was.
C5_Witness ==
    /\ status \in {"compression_failed", "decompression_failed"}
    /\ engine = "failed"
    /\ Snapshot(hout) = before

\* The tensor bytes of the input file the last compression read.
ProvTensor == SplitTensor(prov.src)

\* C7: truncation is detected.  handle_decompression on a container that
\* handle_compression wrote from a file with tensor bytes, and that lost trailing
\* bytes since, never ends with "success" and leaves the output path as it was.
C7_TruncationDetected ==
    (OnWrittenContainer /\ prov.cut /\ Len(ProvTensor) > 0) =>
        /\ status # "success"
        /\ Snapshot(hout) = before

\* A container cut inside its payload went through the parser and the engine refused it.
C7_Witness ==
    /\ OnWrittenContainer /\ prov.cut /\ Len(ProvTensor) > 0
    /\ status = "decompression_failed"
    /\ Len(disk[hin]) >= 24 + Len(prov.result.compressed_header)
                            + 16 * Len(prov.result.chunk_info)

\* Sum of the declared compressed sizes exceeds the bytes left for the payload;
\* a size that does not fit 32-bit integers exceeds any file of the model.
RECURSIVE DeclaredExceeds(_, _)
DeclaredExceeds(table, avail) ==
    /\ table # <<>>
    /\ \/ ~IsSmall(Head(table)[2])
       \/ ToNat(Head(table)[2]) > avail
       \/ DeclaredExceeds(Tail(table), avail - ToNat(Head(table)[2]))

\* C3: declared sizes that exceed the available bytes are a format error before
\* any chunk work.  handle_decompression never arrives at its call of
\* decompress_kang with a chunk table whose compressed sizes add up to more than
\* the bytes that were left in the file after the table.
C3_SizesCheckedBeforeEngine ==
    pc = "d_engine" => ~DeclaredExceeds(chunk_info, Len(compressed_tensors))

\* The stream ends before the signature, the header length, the declared header
\* bytes, the chunk count or the K declared pairs have been read, or the signature
\* differs.
ParseFails(data) ==
    \/ SignatureBad(data)
    \/ Len(data) < 16
    \/ LET H == SubSeq(data, 9, 16)
       IN  \/ ~IsSmall(H)
           \/ Len(data) < 24 + ToNat(H)
           \/ LET K == SubSeq(data, 17 + ToNat(H), 24 + ToNat(H))
              IN  ~IsSmall(K) \/ ToNat(K) > (Len(data) - 24 - ToNat(H)) \div 16

\* Messages with which handle_decompression reports a container it cannot parse.
ParseErrors ==
    {"invalid_signature", "error_header_size", "error_compressed_header",
     "error_num_chunks", "error_chunk_info"}

\* C4: a container that fails parsing is reported, never reaches the engine and
\* produces no output.  When handle_decompression is over on an input it could
\* open and that fails parsing, it has reported a parse error, has not called
\* decompress_kang, and the output path is as it was.
C4_ParseFailureReported ==
    (Decompressing /\ HandlerOver /\ status # "cannot_open_input"
        /\ Present(hin) /\ ParseFails(disk[hin])) =>
        /\ status \in ParseErrors
        /\ engine = "not_called"
        /\ Snapshot(hout) = before

\* C6: declared sizes are bound-checked before buffers are allocated.  Every
\* buffer handle_decompression sizes from a declared value fits the bytes that
\* remain in the stream: H <= remaining for the header buffer, 16 * K <=
\* remaining for the chunk table's reservation.
C6_AllocationsBounded ==
    \A a \in allocs :
        /\ IsSmall(a.declared)
        /\ IF a.what = "compressed_header"
           THEN ToNat(a.declared) <= a.remain
           ELSE ToNat(a.declared) <= a.remain \div 16

\* C8: a single-file command exits with a non-zero status on failure.  When main
\* has returned from a run on a regular file whose handler ended with an error,
\* its return value is not 0.
C8_FailureExitsNonZero ==
    (pc = "exited" /\ ~batch /\ HandlerOver /\ status # "success") => exitCode # 0

\* The directory entries the running command must hand to its handler.
Matching(i) ==
    /\ listing[i].regular
    /\ listing[i].path.ext = IF Compressing THEN ".safetensors" ELSE ".kang"

\* C9: a per-file failure is never fatal to a batch run.  When a run on a
\* directory is over, every regular file with the matching extension has been
\* handed to its handler exactly once, whatever happened to the files before it
\* (and no other entry has); no file is handed over twice on the way.
C9_BatchHandlesEveryFile ==
    batch =>
        /\ \A i \in 1..Len(listing) : handled[i] <= 1
        /\ pc \in {"exited", "aborted"} =>
              \A i \in 1..Len(listing) : handled[i] = IF Matching(i) THEN 1 ELSE 0

\* C10: the metadata/tensor split stays inside the file buffer.  At the header
\* size check, handle_compression either rejects the file ("header size
\* mismatch") or 8 + header_len <= file size holds without wrap-around.
C10_SplitStaysInBuffer ==
    pc = "c_split" => (HeaderSizeMismatch(file_buffer) \/ SplitInBounds(file_buffer))

\* The layout of section 6 of the design document, read off the bytes c: the
\* signature, u64 H, H header bytes, u64 K, K pairs (original, compressed) in
\* chunk order, the payload; 24 + H + 16 K + P bytes in all.
Layout(c, r) ==
    LET H == Len(r.compressed_header)
        K == Len(r.chunk_info)
        P == Len(r.compressed_tensors)
    IN  /\ Len(c) = 24 + H + 16 * K + P
        /\ SubSeq(c, 1, 8) = <<75, 65, 78, 71, 67, 79, 77, 80>>
        /\ IsSmall(SubSeq(c, 9, 16)) /\ ToNat(SubSeq(c, 9, 16)) = H
        /\ SubSeq(c, 17, 16 + H) = r.compressed_header
        /\ IsSmall(SubSeq(c, 17 + H, 24 + H)) /\ ToNat(SubSeq(c, 17 + H, 24 + H)) = K
        /\ \A i \in 1..K :
             /\ SubSeq(c, 9 + H + 16 * i, 16 + H + 16 * i) = r.chunk_info[i][1]
             /\ SubSeq(c, 17 + H + 16 * i, 24 + H + 16 * i) = r.chunk_info[i][2]
        /\ SubSeq(c, 25 + H + 16 * K, Len(c)) = r.compressed_tensors

\* C2: container layout.  The file handle_compression wrote for a
\* CompressionResult has the layout above; handle_decompression's parser does
\* not reject it, and arrives at its call of decompress_kang with the same
\* compressed header, the same chunk table in the same order and the same payload.
C2_ContainerLayout ==
    /\ (prov.valid /\ ~prov.cut /\ Present(prov.path)) =>
           Layout(disk[prov.path], prov.result)
    /\ (OnWrittenContainer /\ ~prov.cut /\ HandlerOver) => status \notin ParseErrors
    /\ (OnWrittenContainer /\ ~prov.cut /\ pc = "d_engine") =>
           /\ compressed_header = prov.result.compressed_header
           /\ chunk_info = prov.result.chunk_info
           /\ compressed_tensors = prov.result.compressed_tensors

\* The parser has read back a container with a header, MaxChunks pairs and a payload.
C2_Witness ==
    /\ OnWrittenContainer /\ ~prov.cut /\ pc = "d_engine"
    /\ Len(compressed_header) > 0
    /\ Len(chunk_info) = MaxChunks
    /\ chunk_info[1][1] # chunk_info[1][2]
    /\ Len(compressed_tensors) > 0
    /\ Len(disk[hin]) = 24 + Len(compressed_header) + 16 * MaxChunks
                           + Len(compressed_tensors)

====
